---- MODULE Spec2Model ----
(***************************************************************************)
(* Model of amst::channel (src/include/amsterdam.h, src/src/amsterdam.cpp): *)
(* an unbounded MPMC FIFO queue (intrusive singly linked list) guarded by   *)
(* one mutex and one condition variable, reached through Sender/Receiver    *)
(* handles that keep a live-count per side.                                 *)
(*                                                                          *)
(* Every read and write of first_, last_, tx_count_, rx_count_ and of the   *)
(* nodes' next links is made with mtx_ held (scoped_lock / unique_lock), so *)
(* a critical section is one step of the model; what happens outside the    *)
(* lock (notify_one after push, blocking in and waking from cv_.wait) is a  *)
(* step of its own.                                                         *)
(***************************************************************************)
EXTENDS Integers, Sequences, FiniteSets, TLC

\* ---------------------------------------------------------------- bounds
MaxPush == 3     \* push calls made, over all threads
MaxCount == 2    \* Sender (and Receiver) objects alive at once, per channel
StressM == 2     \* m of the stress scenario: pushes made by each sender
CountBits == 4   \* width of the std::size_t live-counts, in bits
MaxHandles == 3  \* two-channel scenario: handles of one kind, over both channels
MaxHandlePush == 1  \* two-channel scenario: push calls made, over all threads

\* ------------------------------------------------------------ environment
Senders == {"s1", "s2"}
Receivers == {"r1", "r2"}
Thread == Senders \cup Receivers
Chan == {1, 2}
Kind == {"tx", "rx"}
NodeId == 1..(MaxPush + Cardinality(Senders) * StressM)
NULL == 0
NoThread == "none"
NoVal == <<>>

VARIABLES
    first_,      \* [Chan -> NodeId \cup {NULL}]   ChannelBase::first_
    last_,       \* [Chan -> NodeId \cup {NULL}]   ChannelBase::last_
    tx_count_,   \* [Chan -> Nat]                  ChannelBase::tx_count_
    rx_count_,   \* [Chan -> Nat]                  ChannelBase::rx_count_
    cv_,         \* [Chan -> SUBSET Thread] threads blocked in cv_.wait
    heap,        \* [NodeId -> [st, elem, next]]   the Node objects
    use_count,   \* [Chan -> Nat] owners of the shared_ptr<Channel<T>>
    held,        \* [Thread -> [Kind -> [Chan -> Nat]]] handles a thread owns
    pc,          \* [Thread -> position in the operation it runs]
    loc,         \* [Thread -> [chan]] the channel that operation acts on
    last,        \* [t, op, out, val, waited]: the push/pop/try_pop call that
                 \* returned or threw in the latest step (NoRes if none did)
    seq,         \* [Thread -> Nat] number of push calls made
    pushlog,     \* [Chan -> Seq(value)] appended elements, in lock order
    removed,     \* [Chan -> Seq(value)] dequeued elements, in lock order
    hung,        \* [Chan -> Int] Len(removed) when tx_count_ reached 0, or -1
    failed       \* names of the assertions that have failed

vars == <<first_, last_, tx_count_, rx_count_, cv_, heap, use_count,
          held, pc, loc, last, seq, pushlog, removed, hung, failed>>

chanVars == <<first_, last_, tx_count_, rx_count_>>

\* ------------------------------------------------------------ helpers
NoLoc == [chan |-> 0]
NoRes == [t |-> NoThread, op |-> "-", out |-> "-", val |-> NoVal, waited |-> FALSE]
FreeNode == [st |-> "free", elem |-> NoVal, next |-> NULL]

Result(t, op, out, val) ==
    [t |-> t, op |-> op, out |-> out, val |-> val, waited |-> pc[t] = "pop_wait"]

\* elements reachable from node n by next links (fuel stops a cyclic chain)
RECURSIVE Chain(_, _)
Chain(n, fuel) ==
    IF n = NULL \/ fuel = 0 THEN <<>>
    ELSE <<n>> \o Chain(heap[n].next, fuel - 1)

Nodes(c) == Chain(first_[c], Cardinality(NodeId) + 1)
Queue(c) == [i \in 1..Len(Nodes(c)) |-> heap[Nodes(c)[i]].elem]

FreeIds == {n \in NodeId : heap[n].st = "free"}
NewNode == CHOOSE n \in FreeIds : \A m \in FreeIds : n <= m

\* (mutant) only the head node is deleted
DestroyChannel_HeadOnly(c, h) ==
    [n \in NodeId |-> IF n = first_[c] THEN FreeNode ELSE h[n]]

\* ~ChannelBase: walks the list from first_ and deletes every node
DestroyChannel(c, h) ==
    [n \in NodeId |->
        IF \E i \in 1..Len(Nodes(c)) : Nodes(c)[i] = n THEN FreeNode ELSE h[n]]

\* ------------------------------------------------------------ initial state
\* auto [tx, rx] = amst::channel<T>(): channel 1 exists, empty, counts 1/1;
\* the Sender is owned by thread s1 and the Receiver by thread r1.
Init ==
    /\ first_ = [c \in Chan |-> NULL]
    /\ last_ = [c \in Chan |-> NULL]
    /\ tx_count_ = [c \in Chan |-> IF c = 1 THEN 1 ELSE 0]
    /\ rx_count_ = [c \in Chan |-> IF c = 1 THEN 1 ELSE 0]
    /\ cv_ = [c \in Chan |-> {}]
    /\ heap = [n \in NodeId |-> FreeNode]
    /\ use_count = [c \in Chan |-> IF c = 1 THEN 2 ELSE 0]
    /\ held = [t \in Thread |-> [k \in Kind |-> [c \in Chan |->
                 IF c = 1 /\ ((t = "s1" /\ k = "tx") \/ (t = "r1" /\ k = "rx"))
                 THEN 1 ELSE 0]]]
    /\ pc = [t \in Thread |-> "idle"]
    /\ loc = [t \in Thread |-> NoLoc]
    /\ last = NoRes
    /\ seq = [t \in Thread |-> 0]
    /\ pushlog = [c \in Chan |-> <<>>]
    /\ removed = [c \in Chan |-> <<>>]
    /\ hung = [c \in Chan |-> -1]
    /\ failed = {}

\* ------------------------------------------------------------ list code
\* (mutant) the node is linked in front of first_ instead of behind last_
EnqueueAtHead(c, n, h) ==
    [first |-> n,
     last  |-> IF last_[c] # NULL THEN last_[c] ELSE n,
     heap  |-> [h EXCEPT ![n].next = first_[c], ![n].st = "queued"]]

\* (mutant) first_ is not set when the list was empty
Enqueue_LostHead(c, n, h) ==
    [first |-> first_[c],
     last  |-> n,
     heap  |-> IF last_[c] # NULL
               THEN [h EXCEPT ![last_[c]].next = n, ![n].st = "queued"]
               ELSE [h EXCEPT ![n].st = "queued"]]

\* ChannelBase::push, the list update made under the lock (lines 66-72):
\* the new first_/last_ and the heap h with its node n linked at the tail.
Enqueue(c, n, h) ==
    [first |-> IF last_[c] # NULL THEN first_[c] ELSE n,
     last  |-> n,
     heap  |-> IF last_[c] # NULL
               THEN [h EXCEPT ![last_[c]].next = n, ![n].st = "queued"]
               ELSE [h EXCEPT ![n].st = "queued"]]

\* (mutant) the hang-up test is made before the emptiness test
locked_dequeue_HangupFirst(c) ==
    IF tx_count_[c] = 0
    THEN [out |-> "RecvError", node |-> NULL, first |-> first_[c], last |-> last_[c]]
    ELSE IF first_[c] = NULL
    THEN [out |-> "null", node |-> NULL, first |-> first_[c], last |-> last_[c]]
    ELSE [out |-> "node", node |-> first_[c],
          first |-> heap[first_[c]].next,
          last |-> IF heap[first_[c]].next = NULL THEN NULL ELSE last_[c]]

\* (mutant) an empty list is always reported as a hang-up
locked_dequeue_ThrowOnEmpty(c) ==
    IF first_[c] = NULL
    THEN [out |-> "RecvError", node |-> NULL, first |-> first_[c], last |-> last_[c]]
    ELSE [out |-> "node", node |-> first_[c],
          first |-> heap[first_[c]].next,
          last |-> IF heap[first_[c]].next = NULL THEN NULL ELSE last_[c]]

\* (mutant) last_ is not reset when the list becomes empty
locked_dequeue_KeepLast(c) ==
    IF first_[c] = NULL
    THEN [out |-> IF tx_count_[c] = 0 THEN "RecvError" ELSE "null",
          node |-> NULL, first |-> first_[c], last |-> last_[c]]
    ELSE [out |-> "node", node |-> first_[c],
          first |-> heap[first_[c]].next,
          last |-> last_[c]]

\* (mutant) the hang-up is never reported: an empty list gives nullptr
locked_dequeue_NeverThrows(c) ==
    IF first_[c] = NULL
    THEN [out |-> "null", node |-> NULL, first |-> first_[c], last |-> last_[c]]
    ELSE [out |-> "node", node |-> first_[c],
          first |-> heap[first_[c]].next,
          last |-> IF heap[first_[c]].next = NULL THEN NULL ELSE last_[c]]

\* ChannelBase::locked_dequeue: what it returns ("RecvError" thrown, "null"
\* returned, or the head "node") and the first_/last_ it leaves.
locked_dequeue(c) ==
    IF first_[c] = NULL
    THEN [out |-> IF tx_count_[c] = 0 THEN "RecvError" ELSE "null",
          node |-> NULL, first |-> first_[c], last |-> last_[c]]
    ELSE [out |-> "node", node |-> first_[c],
          first |-> heap[first_[c]].next,
          last |-> IF heap[first_[c]].next = NULL THEN NULL ELSE last_[c]]

\* (mutant) the sender-count is tested instead of the receiver-count
SendFails_TxCount(c) == tx_count_[c] = 0

\* (mutant) off by one: the last Receiver is not counted
SendFails_OffByOne(c) == rx_count_[c] <= 1

\* ChannelBase::push, the test made under the lock: throw SendError()
SendFails(c) == rx_count_[c] = 0

\* (mutant) cv_.wait(guard) without a predicate: any wakeup ends the wait
WaitPredicate_None(c) == TRUE

\* (mutant) the wait does not end when the senders hang up
WaitPredicate_NoHangup(c) == first_[c] # NULL

\* the predicate of cv_.wait in ChannelBase::pop
WaitPredicate(c) == first_[c] # NULL \/ tx_count_[c] = 0

\* (mutant) the notification is dropped
NotifyOne_None(c) == {cv_[c]}

\* cv_.notify_one(): the blocked sets that can result (any one waiter leaves)
NotifyOne(c) ==
    IF cv_[c] = {} THEN {cv_[c]} ELSE {cv_[c] \ {w} : w \in cv_[c]}

\* (mutant) notify_one in place of notify_all
NotifyAll_One(c) ==
    IF cv_[c] = {} THEN {} ELSE cv_[c] \ {CHOOSE w \in cv_[c] : TRUE}

\* cv_.notify_all(): no thread stays blocked
NotifyAll(c) == {}

\* ------------------------------------------------------------ Sender::push
RECURSIVE SumSeq(_)
SumSeq(ts) ==
    IF ts = {} THEN 0
    ELSE LET t == CHOOSE x \in ts : TRUE IN seq[t] + SumSeq(ts \ {t})

\* (mutant) push links the node first and tests rx_count_ afterwards
Push_LinkThenCheck(t, c) ==
    LET n == NewNode
        e == <<t, seq[t] + 1>>
        h == [heap EXCEPT ![n] = [st |-> "owned", elem |-> e, next |-> NULL]]
    IN
    /\ pc[t] = "idle"
    /\ held[t]["tx"][c] > 0
    /\ seq' = [seq EXCEPT ![t] = @ + 1]
    /\ first_' = [first_ EXCEPT ![c] = Enqueue(c, n, h).first]
    /\ last_' = [last_ EXCEPT ![c] = Enqueue(c, n, h).last]
    /\ heap' = Enqueue(c, n, h).heap
    /\ IF SendFails(c)
       THEN /\ last' = Result(t, "push", "SendError", NoVal)
            /\ UNCHANGED <<pushlog, pc, loc>>
       ELSE /\ pushlog' = [pushlog EXCEPT ![c] = Append(@, e)]
            /\ pc' = [pc EXCEPT ![t] = "push_notify"]
            /\ loc' = [loc EXCEPT ![t] = [chan |-> c]]
            /\ last' = NoRes
    /\ UNCHANGED <<tx_count_, rx_count_, cv_, use_count, held, removed, hung, failed>>

\* Channel<T>::emplace builds the node; ChannelBase::push, under the lock,
\* throws SendError (the unique_ptr deletes the node) or links the node.
\* The thread's n-th push sends the element <<t, n>>.
Push(t, c) ==
    LET n == NewNode
        e == <<t, seq[t] + 1>>
        h == [heap EXCEPT ![n] = [st |-> "owned", elem |-> e, next |-> NULL]]
    IN
    /\ pc[t] = "idle"
    /\ held[t]["tx"][c] > 0
    /\ seq' = [seq EXCEPT ![t] = @ + 1]
    /\ IF SendFails(c)
       THEN /\ last' = Result(t, "push", "SendError", NoVal)
            /\ UNCHANGED <<first_, last_, heap, pushlog, pc, loc>>
       ELSE /\ first_' = [first_ EXCEPT ![c] = Enqueue(c, n, h).first]
            /\ last_' = [last_ EXCEPT ![c] = Enqueue(c, n, h).last]
            /\ heap' = Enqueue(c, n, h).heap
            /\ pushlog' = [pushlog EXCEPT ![c] = Append(@, e)]
            /\ pc' = [pc EXCEPT ![t] = "push_notify"]
            /\ loc' = [loc EXCEPT ![t] = [chan |-> c]]
            /\ last' = NoRes
    /\ UNCHANGED <<tx_count_, rx_count_, cv_, use_count, held, removed, hung, failed>>

\* cv_.notify_one(), after the lock is released
PushNotify(t) ==
    LET c == loc[t].chan IN
    /\ pc[t] = "push_notify"
    /\ cv_' \in {[cv_ EXCEPT ![c] = s] : s \in NotifyOne(c)}
    /\ last' = Result(t, "push", "ok", NoVal)
    /\ pc' = [pc EXCEPT ![t] = "idle"]
    /\ loc' = [loc EXCEPT ![t] = NoLoc]
    /\ UNCHANGED <<chanVars, heap, use_count, held, seq, pushlog, removed, hung, failed>>

\* ------------------------------------------------------------ dequeue
\* What a receiver does with the outcome d of locked_dequeue: Channel<T>::
\* try_pop / pop move the element out of the node and delete the node; a
\* null node is nullopt for try_pop and a failed assert(node) for pop.
Deliver(t, c, op, d) ==
    /\ first_' = [first_ EXCEPT ![c] = d.first]
    /\ last_' = [last_ EXCEPT ![c] = d.last]
    /\ pc' = [pc EXCEPT ![t] = "idle"]
    /\ loc' = [loc EXCEPT ![t] = NoLoc]
    /\ IF d.out = "node"
       THEN /\ last' = Result(t, op, "value", heap[d.node].elem)
            /\ heap' = [heap EXCEPT ![d.node] = FreeNode]
            /\ removed' = [removed EXCEPT ![c] = Append(@, heap[d.node].elem)]
            /\ UNCHANGED failed
       ELSE /\ last' = Result(t, op, IF d.out = "null" THEN "nullopt" ELSE d.out, NoVal)
            /\ failed' = IF op = "pop" /\ d.out = "null"
                         THEN failed \cup {"pop: assert(node)"} ELSE failed
            /\ UNCHANGED <<heap, removed>>
    /\ UNCHANGED <<tx_count_, rx_count_, cv_, use_count, held, seq, pushlog, hung>>

\* cv_.wait(guard, pred) finds the predicate false: the lock is released
\* and the thread blocks on cv_
Block(t, c) ==
    /\ cv_' = [cv_ EXCEPT ![c] = @ \cup {t}]
    /\ pc' = [pc EXCEPT ![t] = "pop_wait"]
    /\ loc' = [loc EXCEPT ![t] = [chan |-> c]]
    /\ last' = NoRes
    /\ UNCHANGED <<chanVars, heap, use_count, held, seq, pushlog, removed,
                   hung, failed>>

\* ------------------------------------------------------------ Receiver::try_pop
TryPop(t, c) ==
    /\ pc[t] = "idle"
    /\ held[t]["rx"][c] > 0
    /\ Deliver(t, c, "try_pop", locked_dequeue(c))

\* ------------------------------------------------------------ Receiver::pop
\* ChannelBase::pop takes the lock; cv_.wait blocks while the predicate is
\* false, otherwise locked_dequeue runs under the same lock
Pop(t, c) ==
    /\ pc[t] = "idle"
    /\ held[t]["rx"][c] > 0
    /\ IF WaitPredicate(c)
       THEN Deliver(t, c, "pop", locked_dequeue(c))
       ELSE Block(t, c)

\* an unblocked waiter re-acquires the lock and re-checks the predicate
PopWake(t) ==
    LET c == loc[t].chan IN
    /\ pc[t] = "pop_wait"
    /\ t \notin cv_[c]
    /\ IF WaitPredicate(c)
       THEN Deliver(t, c, "pop", locked_dequeue(c))
       ELSE Block(t, c)

\* std::condition_variable::wait may unblock without a notification
SpuriousWakeup(t) ==
    LET c == loc[t].chan IN
    /\ pc[t] = "pop_wait"
    /\ t \in cv_[c]
    /\ cv_' = [cv_ EXCEPT ![c] = @ \ {t}]
    /\ last' = NoRes
    /\ UNCHANGED <<chanVars, heap, use_count, held, pc, loc, seq,
                   pushlog, removed, hung, failed>>

\* ------------------------------------------------------------ handles
RECURSIVE SumHeld(_, _, _)
SumHeld(ts, k, c) ==
    IF ts = {} THEN 0
    ELSE LET t == CHOOSE x \in ts : TRUE
         IN held[t][k][c] + SumHeld(ts \ {t}, k, c)

\* Sender (k = "tx") or Receiver (k = "rx") objects bound to channel c
Handles(k, c) == SumHeld(Thread, k, c)

Count(k, c) == IF k = "tx" THEN tx_count_[c] ELSE rx_count_[c]

\* threads a new handle of kind k may be given to (std::thread([tx = tx]...))
Owners(k) == IF k = "tx" THEN Senders ELSE Receivers

\* (mutant) the increment is missing
connect_NoIncrement(k, c) == [ok |-> Count(k, c) > 0, count |-> Count(k, c)]

\* ChannelBase::connect_tx / connect_rx under the lock: ok is the asserted
\* condition, count the incremented count
connect(k, c) ==
    [ok |-> Count(k, c) > 0, count |-> (Count(k, c) + 1) % (2 ^ CountBits)]

\* assert(cond) named a, reached by thread t with cond = ok: when ok is
\* false the failure is recorded, and either the thread aborts (stop = TRUE)
\* or, in a build with NDEBUG, the statement does nothing (stop = FALSE)
assert(t, a, ok, stop) ==
    /\ failed' = IF ok THEN failed ELSE failed \cup {a}
    /\ stop => ~ok
    /\ pc' = IF stop THEN [pc EXCEPT ![t] = "aborted"] ELSE pc

\* Sender(const Sender&) / Receiver(const Receiver&): the shared_ptr is
\* copied, then connect_tx / connect_rx runs; the copy belongs to thread u.
Copy(t, k, c, u) ==
    /\ pc[t] = "idle"
    /\ held[t][k][c] > 0
    /\ Handles(k, c) < MaxCount
    /\ use_count' = [use_count EXCEPT ![c] = @ + 1]
    /\ \E stop \in BOOLEAN :
          /\ assert(t, "connect: assert(count > 0)", connect(k, c).ok, stop)
          /\ IF stop
             THEN UNCHANGED <<tx_count_, rx_count_, held>>
             ELSE /\ tx_count_' = IF k = "tx"
                                  THEN [tx_count_ EXCEPT ![c] = connect(k, c).count]
                                  ELSE tx_count_
                  /\ rx_count_' = IF k = "rx"
                                  THEN [rx_count_ EXCEPT ![c] = connect(k, c).count]
                                  ELSE rx_count_
                  /\ held' = [held EXCEPT ![u][k][c] = @ + 1]
    /\ last' = NoRes
    /\ UNCHANGED <<first_, last_, cv_, heap, loc, seq, pushlog, removed, hung>>

\* (mutant) the count is also decremented inside the assertion
disconnect_DecrementInAssert(k, c) ==
    [ok |-> Count(k, c) > 0,
     count |-> (Count(k, c) - 2) % (2 ^ CountBits),
     cv |-> IF k = "tx" /\ (Count(k, c) - 2) % (2 ^ CountBits) = 0
            THEN NotifyAll(c) ELSE cv_[c]]

\* (mutant) every disconnect_tx notifies, not only the last
disconnect_AlwaysNotify(k, c) ==
    [ok |-> Count(k, c) > 0,
     count |-> (Count(k, c) - 1) % (2 ^ CountBits),
     cv |-> IF k = "tx" THEN NotifyAll(c) ELSE cv_[c]]

\* (mutant) the waiters are not notified when the sender-count reaches zero
disconnect_NoNotify(k, c) ==
    [ok |-> Count(k, c) > 0,
     count |-> (Count(k, c) - 1) % (2 ^ CountBits),
     cv |-> cv_[c]]

\* ChannelBase::disconnect_tx / disconnect_rx under the lock: ok is the
\* asserted condition, count the decremented (unsigned) count, cv the
\* threads left blocked on cv_ (notify_all when the sender-count is now zero)
disconnect(k, c) ==
    [ok |-> Count(k, c) > 0,
     count |-> (Count(k, c) - 1) % (2 ^ CountBits),
     cv |-> IF k = "tx" /\ (Count(k, c) - 1) % (2 ^ CountBits) = 0
            THEN NotifyAll(c) ELSE cv_[c]]

\* (mutant) a drop releases the state as soon as one side has hung up
LastOwner_OfSide(c) == tx_count_[c] = 0 \/ rx_count_[c] = 0 \/ use_count[c] = 1

\* std::shared_ptr<Channel<T>>: the owner that releases it is the last one
LastOwner(c) == use_count[c] = 1

\* ~Sender / ~Receiver: disconnect_tx / disconnect_rx, then the handle's
\* shared_ptr is released; the last owner destroys the channel (~ChannelBase).
\* A destroyed channel's fields are kept as NULL.
Drop(t, k, c) ==
    LET d == disconnect(k, c) IN
    /\ pc[t] = "idle"
    /\ held[t][k][c] > 0
    /\ held' = [held EXCEPT ![t][k][c] = @ - 1]
    /\ \E stop \in BOOLEAN :
          /\ assert(t, "disconnect: assert(count > 0)", d.ok, stop)
          /\ IF stop
             THEN UNCHANGED <<chanVars, cv_, heap, use_count, hung>>
             ELSE /\ tx_count_' = IF k = "tx" THEN [tx_count_ EXCEPT ![c] = d.count]
                                  ELSE tx_count_
                  /\ rx_count_' = IF k = "rx" THEN [rx_count_ EXCEPT ![c] = d.count]
                                  ELSE rx_count_
                  /\ cv_' = [cv_ EXCEPT ![c] = d.cv]
                  /\ hung' = IF k = "tx" /\ d.count = 0
                             THEN [hung EXCEPT ![c] = Len(removed[c])] ELSE hung
                  /\ use_count' = [use_count EXCEPT ![c] = @ - 1]
                  /\ IF LastOwner(c)
                     THEN /\ heap' = DestroyChannel(c, heap)
                          /\ first_' = [first_ EXCEPT ![c] = NULL]
                          /\ last_' = [last_ EXCEPT ![c] = NULL]
                     ELSE UNCHANGED <<heap, first_, last_>>
    /\ last' = NoRes
    /\ UNCHANGED <<loc, seq, pushlog, removed>>

\* ------------------------------------------------------------ operator=
\* (mutant) no identity check: a handle is always re-pointed
SameTarget_Never(a, b) == FALSE

\* Sender::operator= / Receiver::operator=: channel_ == other.channel_
SameTarget(a, b) == a = b

\* *this = other, where *this is a handle of kind k on channel a and other a
\* handle of kind k on channel b, both owned by thread t. Same channel:
\* return *this. Otherwise disconnect_tx / disconnect_rx on a (as in Drop),
\* then channel_ = other.channel_: the shared_ptr takes a share of b and
\* releases its share of a; the connect on b is the step AssignConnect.
Assign(t, k, a, b) ==
    LET d == disconnect(k, a) IN
    /\ pc[t] = "idle"
    /\ held[t][k][a] > 0
    /\ held[t][k][b] > 0
    /\ IF SameTarget(a, b)
       THEN /\ last' = Result(t, "assign", "same", NoVal)
            /\ UNCHANGED <<chanVars, cv_, heap, use_count, held, pc, loc, hung, failed>>
       ELSE /\ last' = NoRes
            /\ held' = [held EXCEPT ![t][k][a] = @ - 1]
            /\ \E stop \in BOOLEAN :
                  /\ failed' = IF d.ok THEN failed
                               ELSE failed \cup {"disconnect: assert(count > 0)"}
                  /\ stop => ~d.ok
                  /\ IF stop
                     THEN /\ pc' = [pc EXCEPT ![t] = "aborted"]
                          /\ UNCHANGED <<chanVars, cv_, heap, use_count, loc, hung>>
                     ELSE /\ pc' = [pc EXCEPT ![t] = "assign_" \o k]
                          /\ loc' = [loc EXCEPT ![t] = [chan |-> b]]
                          /\ tx_count_' = IF k = "tx" THEN [tx_count_ EXCEPT ![a] = d.count]
                                          ELSE tx_count_
                          /\ rx_count_' = IF k = "rx" THEN [rx_count_ EXCEPT ![a] = d.count]
                                          ELSE rx_count_
                          /\ cv_' = [cv_ EXCEPT ![a] = d.cv]
                          /\ hung' = IF k = "tx" /\ d.count = 0
                                     THEN [hung EXCEPT ![a] = Len(removed[a])] ELSE hung
                          /\ use_count' = IF a = b THEN use_count
                                          ELSE [use_count EXCEPT ![a] = @ - 1, ![b] = @ + 1]
                          /\ IF LastOwner(a) /\ a # b
                             THEN /\ heap' = DestroyChannel(a, heap)
                                  /\ first_' = [first_ EXCEPT ![a] = NULL]
                                  /\ last_' = [last_ EXCEPT ![a] = NULL]
                             ELSE UNCHANGED <<heap, first_, last_>>
    /\ UNCHANGED <<seq, pushlog, removed>>

\* operator=, last statement: channel_->connect_tx() / connect_rx() on the
\* new channel; the handle is usable again
AssignConnect(t, k) ==
    LET c == loc[t].chan IN
    /\ pc[t] = "assign_" \o k
    /\ loc' = [loc EXCEPT ![t] = NoLoc]
    /\ \E stop \in BOOLEAN :
          /\ failed' = IF connect(k, c).ok THEN failed
                       ELSE failed \cup {"connect: assert(count > 0)"}
          /\ stop => ~connect(k, c).ok
          /\ IF stop
             THEN /\ pc' = [pc EXCEPT ![t] = "aborted"]
                  /\ last' = NoRes
                  /\ UNCHANGED <<tx_count_, rx_count_, held>>
             ELSE /\ pc' = [pc EXCEPT ![t] = "idle"]
                  /\ last' = Result(t, "assign", "ok", NoVal)
                  /\ tx_count_' = IF k = "tx"
                                  THEN [tx_count_ EXCEPT ![c] = connect(k, c).count]
                                  ELSE tx_count_
                  /\ rx_count_' = IF k = "rx"
                                  THEN [rx_count_ EXCEPT ![c] = connect(k, c).count]
                                  ELSE rx_count_
                  /\ held' = [held EXCEPT ![t][k][c] = @ + 1]
    /\ UNCHANGED <<first_, last_, cv_, heap, use_count, seq, pushlog, removed, hung>>

\* ------------------------------------------------------------ amst::channel
\* (mutant) the pair is built by moving tx and rx, with no connect, and the
\* moved-from locals are still destroyed
channel_Moved ==
    << [op |-> "drop", k |-> "rx"], [op |-> "drop", k |-> "tx"] >>

\* amst::channel<T>(), after make_shared and the construction of the locals
\* tx and rx: return {tx, rx} copies tx, then rx, into the pair (Sender and
\* Receiver have no move constructor), then the locals are destroyed in
\* reverse order of construction
channel ==
    << [op |-> "copy", k |-> "tx"], [op |-> "copy", k |-> "rx"],
       [op |-> "drop", k |-> "rx"], [op |-> "drop", k |-> "tx"] >>

FactoryPc(i) == "factory_" \o ToString(i)
InFactory(t) == \E i \in 1..Len(channel) : pc[t] = FactoryPc(i)

\* the channel c has not been made yet
Fresh(c) ==
    /\ use_count[c] = 0 /\ tx_count_[c] = 0 /\ rx_count_[c] = 0
    /\ hung[c] = -1 /\ pushlog[c] = <<>>

\* amst::channel<T>() called by thread t: std::make_shared<Channel<T>>()
\* (first_ = last_ = nullptr, tx_count_ = rx_count_ = 1), then the locals
\* Sender tx(channel) and Receiver rx(std::move(channel)), which share the
\* state and do not connect
FactoryBegin(t, c) ==
    /\ pc[t] = "idle"
    /\ Fresh(c)
    /\ first_' = [first_ EXCEPT ![c] = NULL]
    /\ last_' = [last_ EXCEPT ![c] = NULL]
    /\ tx_count_' = [tx_count_ EXCEPT ![c] = 1]
    /\ rx_count_' = [rx_count_ EXCEPT ![c] = 1]
    /\ cv_' = [cv_ EXCEPT ![c] = {}]
    /\ use_count' = [use_count EXCEPT ![c] = 2]
    /\ held' = [held EXCEPT ![t]["tx"][c] = 1, ![t]["rx"][c] = 1]
    /\ pc' = [pc EXCEPT ![t] = FactoryPc(1)]
    /\ loc' = [loc EXCEPT ![t] = [chan |-> c]]
    /\ last' = NoRes
    /\ UNCHANGED <<heap, seq, pushlog, removed, hung, failed>>

\* the next copy or destruction made by the factory thread t runs; after
\* the last one the pair is returned
FactoryStep(t) ==
    LET c == loc[t].chan
        i == CHOOSE j \in 1..Len(channel) : pc[t] = FactoryPc(j)
        k == channel[i].k
        copy == channel[i].op = "copy"
        ok == IF copy THEN connect(k, c).ok ELSE disconnect(k, c).ok
        count == IF copy THEN connect(k, c).count ELSE disconnect(k, c).count
        done == i = Len(channel)
    IN
    /\ InFactory(t)
    /\ failed' = IF ok THEN failed
                 ELSE failed \cup {IF copy THEN "connect: assert(count > 0)"
                                    ELSE "disconnect: assert(count > 0)"}
    /\ \E stop \in BOOLEAN :
          /\ stop => ~ok
          /\ IF stop
             THEN /\ pc' = [pc EXCEPT ![t] = "aborted"]
                  /\ last' = NoRes
                  /\ UNCHANGED <<chanVars, cv_, heap, use_count, held, loc, hung>>
             ELSE /\ pc' = [pc EXCEPT ![t] = IF done THEN "idle" ELSE FactoryPc(i + 1)]
                  /\ loc' = IF done THEN [loc EXCEPT ![t] = NoLoc] ELSE loc
                  /\ last' = IF done THEN Result(t, "channel", "ok", NoVal) ELSE NoRes
                  /\ tx_count_' = IF k = "tx" THEN [tx_count_ EXCEPT ![c] = count]
                                  ELSE tx_count_
                  /\ rx_count_' = IF k = "rx" THEN [rx_count_ EXCEPT ![c] = count]
                                  ELSE rx_count_
                  /\ held' = [held EXCEPT ![t][k][c] = IF copy THEN @ + 1 ELSE @ - 1]
                  /\ use_count' = [use_count EXCEPT ![c] = IF copy THEN @ + 1 ELSE @ - 1]
                  /\ cv_' = IF copy THEN cv_ ELSE [cv_ EXCEPT ![c] = disconnect(k, c).cv]
                  /\ hung' = IF ~copy /\ k = "tx" /\ count = 0
                             THEN [hung EXCEPT ![c] = Len(removed[c])] ELSE hung
                  /\ IF ~copy /\ LastOwner(c)
                     THEN /\ heap' = DestroyChannel(c, heap)
                          /\ first_' = [first_ EXCEPT ![c] = NULL]
                          /\ last_' = [last_ EXCEPT ![c] = NULL]
                     ELSE UNCHANGED <<heap, first_, last_>>
    /\ UNCHANGED <<seq, pushlog, removed>>

\* ------------------------------------------------------------ specification
\* the bound on push calls (tested after the cheap part of Push's guard)
MayPush(t, c) ==
    pc[t] = "idle" /\ held[t]["tx"][c] > 0 /\ SumSeq(Thread) < MaxPush

\* Any thread may start any operation on a handle it owns; the number of
\* push calls and of handles is bounded.
Next ==
    \/ \E t \in Thread, c \in Chan : MayPush(t, c) /\ Push(t, c)
    \/ \E t \in Thread : PushNotify(t)
    \/ \E t \in Thread, c \in Chan : TryPop(t, c)
    \/ \E t \in Thread, c \in Chan : Pop(t, c)
    \/ \E t \in Thread : PopWake(t)
    \/ \E t \in Thread : SpuriousWakeup(t)
    \/ \E t \in Thread, k \in Kind, c \in Chan : \E u \in Owners(k) : Copy(t, k, c, u)
    \/ \E t \in Thread, k \in Kind, c \in Chan : Drop(t, k, c)

Spec == Init /\ [][Next]_vars

\* Fair scheduling: a thread that is inside an operation and can take its
\* next step eventually takes it (the notify_one of a push, the re-check of
\* a woken pop). Starting an operation is never forced, and neither is a
\* spurious wakeup.
Fairness ==
    \A t \in Thread : WF_vars(PushNotify(t)) /\ WF_vars(PopWake(t))

FairSpec == Spec /\ Fairness

\* ------------------------------------------------------------ thread pool
\* Two sender threads and two receiver threads, each owning its own handle
\* of channel 1 ("each thread should have its own Sender"): every operation
\* but the copy of a handle, under fair scheduling.
PoolInit ==
    /\ first_ = [c \in Chan |-> NULL]
    /\ last_ = [c \in Chan |-> NULL]
    /\ tx_count_ = [c \in Chan |-> IF c = 1 THEN Cardinality(Senders) ELSE 0]
    /\ rx_count_ = [c \in Chan |-> IF c = 1 THEN Cardinality(Receivers) ELSE 0]
    /\ cv_ = [c \in Chan |-> {}]
    /\ heap = [n \in NodeId |-> FreeNode]
    /\ use_count = [c \in Chan |-> IF c = 1 THEN Cardinality(Thread) ELSE 0]
    /\ held = [t \in Thread |-> [k \in Kind |-> [c \in Chan |->
                 IF c = 1 /\ ((t \in Senders /\ k = "tx") \/ (t \in Receivers /\ k = "rx"))
                 THEN 1 ELSE 0]]]
    /\ pc = [t \in Thread |-> "idle"]
    /\ loc = [t \in Thread |-> NoLoc]
    /\ last = NoRes
    /\ seq = [t \in Thread |-> 0]
    /\ pushlog = [c \in Chan |-> <<>>]
    /\ removed = [c \in Chan |-> <<>>]
    /\ hung = [c \in Chan |-> -1]
    /\ failed = {}

PoolNext ==
    \/ \E t \in Thread, c \in Chan : MayPush(t, c) /\ Push(t, c)
    \/ \E t \in Thread : PushNotify(t)
    \/ \E t \in Thread, c \in Chan : TryPop(t, c)
    \/ \E t \in Thread, c \in Chan : Pop(t, c)
    \/ \E t \in Thread : PopWake(t)
    \/ \E t \in Thread : SpuriousWakeup(t)
    \/ \E t \in Thread, k \in Kind, c \in Chan : Drop(t, k, c)

PoolSpec == PoolInit /\ [][PoolNext]_vars /\ Fairness

\* ------------------------------------------------------------ two channels
\* Two calls of amst::channel<T>() were made: thread s1 owns the Sender of
\* each channel and thread r1 the Receiver of each channel. Every operation
\* of the handles, assignment included; at most MaxHandles Senders and
\* MaxHandles Receivers exist at a time.
HandleInit ==
    /\ first_ = [c \in Chan |-> NULL]
    /\ last_ = [c \in Chan |-> NULL]
    /\ tx_count_ = [c \in Chan |-> 1]
    /\ rx_count_ = [c \in Chan |-> 1]
    /\ cv_ = [c \in Chan |-> {}]
    /\ heap = [n \in NodeId |-> FreeNode]
    /\ use_count = [c \in Chan |-> 2]
    /\ held = [t \in Thread |-> [k \in Kind |-> [c \in Chan |->
                 IF (t = "s1" /\ k = "tx") \/ (t = "r1" /\ k = "rx")
                 THEN 1 ELSE 0]]]
    /\ pc = [t \in Thread |-> "idle"]
    /\ loc = [t \in Thread |-> NoLoc]
    /\ last = NoRes
    /\ seq = [t \in Thread |-> 0]
    /\ pushlog = [c \in Chan |-> <<>>]
    /\ removed = [c \in Chan |-> <<>>]
    /\ hung = [c \in Chan |-> -1]
    /\ failed = {}

MayCopyH(k) == SumHeld(Thread, k, 1) + SumHeld(Thread, k, 2) < MaxHandles

MayPushH(t, c) ==
    pc[t] = "idle" /\ held[t]["tx"][c] > 0 /\ SumSeq(Thread) < MaxHandlePush

HandleNext ==
    \/ \E t \in Thread, c \in Chan : MayPushH(t, c) /\ Push(t, c)
    \/ \E t \in Thread : PushNotify(t)
    \/ \E t \in Thread, c \in Chan : TryPop(t, c)
    \/ \E t \in Thread, c \in Chan : Pop(t, c)
    \/ \E t \in Thread : PopWake(t)
    \/ \E t \in Thread : SpuriousWakeup(t)
    \/ \E t \in Thread, k \in Kind, c \in Chan : MayCopyH(k) /\ Copy(t, k, c, t)
    \/ \E t \in Thread, k \in Kind, c \in Chan : Drop(t, k, c)
    \/ \E t \in Thread, k \in Kind, a \in Chan, b \in Chan : Assign(t, k, a, b)
    \/ \E t \in Thread, k \in Kind : AssignConnect(t, k)

HandleSpec == HandleInit /\ [][HandleNext]_vars

\* ------------------------------------------------------------ factory
\* No channel exists at the start; any thread may call amst::channel<T>()
\* (once per channel of Chan) and then use and drop the handles it got,
\* while other threads do the same.
FactoryInit ==
    /\ first_ = [c \in Chan |-> NULL]
    /\ last_ = [c \in Chan |-> NULL]
    /\ tx_count_ = [c \in Chan |-> 0]
    /\ rx_count_ = [c \in Chan |-> 0]
    /\ cv_ = [c \in Chan |-> {}]
    /\ heap = [n \in NodeId |-> FreeNode]
    /\ use_count = [c \in Chan |-> 0]
    /\ held = [t \in Thread |-> [k \in Kind |-> [c \in Chan |-> 0]]]
    /\ pc = [t \in Thread |-> "idle"]
    /\ loc = [t \in Thread |-> NoLoc]
    /\ last = NoRes
    /\ seq = [t \in Thread |-> 0]
    /\ pushlog = [c \in Chan |-> <<>>]
    /\ removed = [c \in Chan |-> <<>>]
    /\ hung = [c \in Chan |-> -1]
    /\ failed = {}

FactoryNext ==
    \/ \E t \in Thread, c \in Chan : FactoryBegin(t, c)
    \/ \E t \in Thread : FactoryStep(t)
    \/ \E t \in Thread, c \in Chan : MayPushH(t, c) /\ Push(t, c)
    \/ \E t \in Thread : PushNotify(t)
    \/ \E t \in Thread, c \in Chan : TryPop(t, c)
    \/ \E t \in Thread, c \in Chan : Pop(t, c)
    \/ \E t \in Thread : PopWake(t)
    \/ \E t \in Thread : SpuriousWakeup(t)
    \/ \E t \in Thread, k \in Kind, c \in Chan : Drop(t, k, c)

FactorySpec == FactoryInit /\ [][FactoryNext]_vars

\* ------------------------------------------------------------ stress scenario
\* TEST_CASE("stress: multithreaded"), with k = |Senders| sender threads:
\* every sender thread owns a Sender and pushes StressM values, then may
\* drop its Sender; the receiver thread r1 owns the Receiver and calls
\* pop() until it has received k * StressM values.
StressTotal == Cardinality(Senders) * StressM

StressInit ==
    /\ first_ = [c \in Chan |-> NULL]
    /\ last_ = [c \in Chan |-> NULL]
    /\ tx_count_ = [c \in Chan |-> IF c = 1 THEN Cardinality(Senders) ELSE 0]
    /\ rx_count_ = [c \in Chan |-> IF c = 1 THEN 1 ELSE 0]
    /\ cv_ = [c \in Chan |-> {}]
    /\ heap = [n \in NodeId |-> FreeNode]
    /\ use_count = [c \in Chan |-> IF c = 1 THEN Cardinality(Senders) + 1 ELSE 0]
    /\ held = [t \in Thread |-> [k \in Kind |-> [c \in Chan |->
                 IF c = 1 /\ ((t \in Senders /\ k = "tx") \/ (t = "r1" /\ k = "rx"))
                 THEN 1 ELSE 0]]]
    /\ pc = [t \in Thread |-> "idle"]
    /\ loc = [t \in Thread |-> NoLoc]
    /\ last = NoRes
    /\ seq = [t \in Thread |-> 0]
    /\ pushlog = [c \in Chan |-> <<>>]
    /\ removed = [c \in Chan |-> <<>>]
    /\ hung = [c \in Chan |-> -1]
    /\ failed = {}

StressPush(t) == seq[t] < StressM /\ Push(t, 1)

StressPop ==
    /\ Len(removed[1]) < StressTotal
    /\ Pop("r1", 1)

StressNext ==
    \/ \E t \in Senders : StressPush(t)
    \/ \E t \in Senders : PushNotify(t)
    \/ \E t \in Senders : seq[t] = StressM /\ Drop(t, "tx", 1)
    \/ StressPop
    \/ PopWake("r1")
    \/ SpuriousWakeup("r1")

StressFairness ==
    /\ \A t \in Senders : WF_vars(StressPush(t)) /\ WF_vars(PushNotify(t))
    /\ WF_vars(StressPop)
    /\ WF_vars(PopWake("r1"))

StressSpec == StressInit /\ [][StressNext]_vars /\ StressFairness

\* ------------------------------------------------------------ properties
Alive(c) == use_count[c] > 0

\* the elements of s that thread t sent, and "in the order t pushed them"
\* (t's n-th push call sends <<t, n>>)
SentBy(s, t) == SelectSeq(s, LAMBDA e : e[1] = t)
Increasing(s) == \A i, j \in 1..Len(s) : i < j => s[i][2] < s[j][2]

\* C1 (FIFO per sender): for every channel and every sender thread, the
\* elements of that sender are dequeued in the order the sender pushed them,
\* and the dequeued elements followed by the queue, restricted to one sender,
\* are that sender's successful pushes in push order (the whole order is an
\* interleaving of the per-sender orders).
C1_FifoPerSender ==
    \A c \in Chan, t \in Thread :
        /\ Increasing(SentBy(removed[c], t))
        /\ Alive(c) => /\ Increasing(SentBy(removed[c] \o Queue(c), t))
                       /\ SentBy(removed[c] \o Queue(c), t) = SentBy(pushlog[c], t)

\* two senders' pushes interleaved: s1's two elements were received in
\* order with s2's element between them
C1_Witness ==
    removed[1] = << <<"s1", 1>>, <<"s2", 1>>, <<"s1", 2>> >>

\* thread t completes a pop or try_pop on channel c in this step
\* (locked_dequeue has run: a value, nullopt or RecvError)
DequeueStep(t, c) ==
    /\ TryPop(t, c) \/ Pop(t, c) \/ (loc[t].chan = c /\ PopWake(t))
    /\ pc'[t] = "idle"

\* C2 (hang-up/receive): while a channel's sender-count is 0, the queue only
\* shrinks from its head; every pop/try_pop that runs, by any receiver,
\* completes without blocking: it returns the head of the queue and removes
\* it while values are buffered, and fails with RecvError once the queue is
\* empty.
C2_HangupReceive ==
    [][\A c \in Chan : (Alive(c) /\ tx_count_[c] = 0 /\ Alive(c)') =>
          /\ Queue(c)' = Queue(c) \/ (Queue(c) # <<>> /\ Queue(c)' = Tail(Queue(c)))
          /\ \A t \in Thread :
                (TryPop(t, c) \/ Pop(t, c) \/ (loc[t].chan = c /\ PopWake(t))) =>
                   /\ pc'[t] = "idle"
                   /\ last'.t = t
                   /\ IF Queue(c) # <<>>
                      THEN /\ last'.out = "value"
                           /\ last'.val = Head(Queue(c))
                           /\ Queue(c)' = Tail(Queue(c))
                           /\ removed'[c] = Append(removed[c], Head(Queue(c)))
                      ELSE /\ last'.out = "RecvError"
                           /\ Queue(c)' = <<>>
                           /\ removed'[c] = removed[c]
      ]_vars

\* the last Sender went away with two values buffered; both were then
\* received in queue order and the next call failed with RecvError
C2_Witness ==
    /\ tx_count_[1] = 0
    /\ hung[1] >= 0
    /\ Len(removed[1]) = hung[1] + 2
    /\ removed[1] = pushlog[1]
    /\ last.out = "RecvError"
    /\ Handles("rx", 1) = 2

\* C3 (hang-up/send): while a channel's receiver-count is 0 every push, by
\* any Sender, fails with SendError and enqueues nothing, and the queue keeps
\* its content; the drop of the last Receiver leaves the queue as it was
\* (as long as a Sender still keeps the channel state alive).
C3_HangupSend ==
    [][\A c \in Chan :
          /\ (Alive(c) /\ rx_count_[c] = 0) =>
                /\ Alive(c)' => (Queue(c)' = Queue(c) /\ rx_count_'[c] = 0)
                /\ \A t \in Thread : Push(t, c) =>
                      /\ last' = Result(t, "push", "SendError", NoVal)
                      /\ pc'[t] = "idle"
                      /\ pushlog' = pushlog
                      /\ UNCHANGED <<first_, last_, heap>>
          /\ \A t \in Thread :
                (Drop(t, "rx", c) /\ rx_count_[c] = 1 /\ Alive(c)') =>
                      /\ rx_count_'[c] = 0
                      /\ Queue(c)' = Queue(c)
      ]_vars

\* the receivers are gone, two Senders are left, a value is still buffered
\* and a push has just failed with SendError
C3_Witness ==
    /\ rx_count_[1] = 0
    /\ Handles("tx", 1) = 2
    /\ Queue(1) # <<>>
    /\ last.op = "push" /\ last.out = "SendError"

Blocked(t, c) == pc[t] = "pop_wait" /\ loc[t].chan = c

\* C4 (no lost wakeup): the notify_one of a push, issued after the critical
\* section, takes exactly one thread out of those blocked on cv_ when there
\* is one; and under fair scheduling no receiver stays in pop() forever
\* while the queue stays non-empty.
NotifyWakesOne ==
    [][\A c \in Chan, t \in Thread :
          (loc[t].chan = c /\ PushNotify(t) /\ cv_[c] # {}) =>
              \E w \in cv_[c] : cv_'[c] = cv_[c] \ {w}
      ]_vars

NoReceiverStuck ==
    \A c \in Chan, t \in Thread :
        []<>~(Blocked(t, c) /\ Queue(c) # <<>>)

C4_NoLostWakeup == NotifyWakesOne /\ NoReceiverStuck

\* a pop that had blocked on the empty queue of an open channel returned a
\* value, while the other receiver is still blocked
C4_Witness ==
    /\ last.op = "pop" /\ last.waited /\ last.out = "value"
    /\ tx_count_[1] > 0
    /\ \E t \in Thread : t # last.t /\ Blocked(t, 1) /\ t \in cv_[1]

\* C5 (hang-up wakes every waiter): the drop that brings the sender-count
\* to 0 leaves no thread blocked on cv_; a woken pop that finds the
\* sender-count 0 completes with a value or RecvError; and under fair
\* scheduling, once the sender-count is 0, eventually no receiver is in
\* pop() any more, for good.
HangupNotifiesAll ==
    [][\A c \in Chan, t \in Thread :
          /\ (Drop(t, "tx", c) /\ tx_count_[c] = 1) =>
                (tx_count_'[c] = 0 /\ cv_'[c] = {})
          /\ (loc[t].chan = c /\ PopWake(t) /\ tx_count_[c] = 0) =>
                /\ pc'[t] = "idle"
                /\ last'.t = t
                /\ last'.out = IF Queue(c) # <<>> THEN "value" ELSE "RecvError"
      ]_vars

NoReceiverLeftBlocked ==
    \A c \in Chan :
        [](tx_count_[c] = 0 => <>[](\A t \in Thread : ~Blocked(t, c)))

C5_HangupWakesAll == HangupNotifiesAll /\ NoReceiverLeftBlocked

\* both receivers were blocked in pop() on the empty queue when the last
\* Sender was dropped: both are unblocked and about to re-check
C5_Witness ==
    /\ tx_count_[1] = 0 /\ hung[1] >= 0
    /\ Queue(1) = <<>>
    /\ Blocked("r1", 1) /\ Blocked("r2", 1)
    /\ cv_[1] = {}

StressDone == Len(removed[1]) = StressTotal /\ pc["r1"] = "idle"

\* C6 (concurrency stress): in the stress scenario, under fair scheduling,
\* the receiver's k * m calls to pop() all return (it terminates, no call
\* fails); what it received is exactly the set of pushed values, each once,
\* and each sender's values were received in that sender's push order.
C6_Stress ==
    /\ <>StressDone
    /\ [](last.out \notin {"RecvError", "SendError"} /\ failed = {})
    /\ [](StressDone =>
            /\ {removed[1][i] : i \in 1..Len(removed[1])} = Senders \X (1..StressM)
            /\ \A t \in Senders :
                  SentBy(removed[1], t) = [n \in 1..StressM |-> <<t, n>>])

\* the receiver has received everything, the first two values coming from
\* different senders, and its last pop had blocked
C6_Witness ==
    /\ StressDone
    /\ removed[1][1] = <<"s2", 1>> /\ removed[1][2] = <<"s1", 1>>
    /\ last.waited

\* C7 (non-blocking empty read): try_pop never waits; on an empty channel
\* whose sender-count is > 0 it returns nullopt and changes neither the
\* queue nor a live-count; on a non-empty channel it removes and returns the
\* head element.
C7_TryPopNonBlocking ==
    [][\A c \in Chan, t \in Thread : TryPop(t, c) =>
          /\ pc'[t] = "idle"
          /\ cv_' = cv_
          /\ UNCHANGED <<tx_count_, rx_count_>>
          /\ (Queue(c) = <<>> /\ tx_count_[c] > 0) =>
                /\ last' = Result(t, "try_pop", "nullopt", NoVal)
                /\ Queue(c)' = <<>>
                /\ UNCHANGED <<first_, last_, heap, removed, failed>>
          /\ Queue(c) # <<>> =>
                /\ last' = Result(t, "try_pop", "value", Head(Queue(c)))
                /\ Queue(c)' = Tail(Queue(c))
      ]_vars

\* try_pop has just returned nullopt on an open channel that had traffic
C7_Witness ==
    /\ last.op = "try_pop" /\ last.out = "nullopt"
    /\ tx_count_[1] > 0 /\ rx_count_[1] > 0
    /\ Queue(1) = <<>>
    /\ removed[1] # <<>>

\* C8 (no spurious receive failure): a pop or try_pop fails with RecvError
\* only if, when locked_dequeue runs, the sender-count is 0, no Sender
\* exists and the queue is empty.
C8_NoSpuriousRecvError ==
    [][\A c \in Chan, t \in Thread :
          (DequeueStep(t, c) /\ last'.out = "RecvError") =>
              /\ tx_count_[c] = 0
              /\ Handles("tx", c) = 0
              /\ first_[c] = NULL
              /\ Queue(c) = <<>>
      ]_vars

\* a pop that had blocked was woken by the hang-up and failed with
\* RecvError, after every value pushed had been received
C8_Witness ==
    /\ last.op = "pop" /\ last.out = "RecvError" /\ last.waited
    /\ pushlog[1] # <<>>
    /\ removed[1] = pushlog[1]

\* C9 (no spurious send failure): a push fails with SendError only if the
\* receiver-count is 0 when it holds the lock; otherwise it succeeds, for
\* any queue length and sender-count, and the queue grows by exactly the
\* pushed element, linked at the tail.
C9_NoSpuriousSendError ==
    [][\A c \in Chan, t \in Thread :
          /\ Push(t, c) =>
                IF rx_count_[c] > 0
                THEN /\ pc'[t] = "push_notify"
                     /\ last' = NoRes
                     /\ Queue(c)' = Append(Queue(c), <<t, seq[t] + 1>>)
                     /\ last_'[c] # NULL
                     /\ heap'[last_'[c]].elem = <<t, seq[t] + 1>>
                     /\ heap'[last_'[c]].next = NULL
                ELSE last'.out = "SendError"
          /\ (loc[t].chan = c /\ PushNotify(t)) => last'.out = "ok"
      ]_vars

\* a push by one of two Senders has succeeded on a queue that already held
\* two values, with one Receiver live
C9_Witness ==
    /\ last.op = "push" /\ last.out = "ok"
    /\ Len(Queue(1)) = 3
    /\ tx_count_[1] = 2 /\ rx_count_[1] = 1

NoDuplicates(s) == \A i, j \in 1..Len(s) : i # j => s[i] # s[j]

\* C10 (least-recently-queued, exactly-once delivery): for every channel
\* whose state exists, the elements dequeued so far (in removal order, over
\* all receivers) followed by the queue content are the successful pushes in
\* lock order, each exactly once; the queued nodes are distinct live nodes.
\* What was dequeued is always a prefix of what was pushed.
C10_ExactlyOnce ==
    \A c \in Chan :
        /\ Len(removed[c]) <= Len(pushlog[c])
        /\ removed[c] = SubSeq(pushlog[c], 1, Len(removed[c]))
        /\ NoDuplicates(pushlog[c])
        /\ Alive(c) =>
              /\ removed[c] \o Queue(c) = pushlog[c]
              /\ NoDuplicates(Nodes(c))
              /\ \A i \in 1..Len(Nodes(c)) : heap[Nodes(c)[i]].st = "queued"

\* two receivers compete: r1 was notified and has not run yet, r2 has just
\* received the second element, a third is still queued
C10_Witness ==
    /\ Len(removed[1]) = 2
    /\ Queue(1) # <<>>
    /\ last.t = "r2" /\ last.out = "value" /\ last.val = removed[1][2]
    /\ pc["r1"] = "pop_wait" /\ "r1" \notin cv_[1]

\* handles of either kind bound to channel c, and threads whose handle is
\* being re-pointed to c (it holds a share of c and has yet to connect)
HandleCount(c) == Handles("tx", c) + Handles("rx", c)
Assigning(c) ==
    Cardinality({t \in Thread : pc[t] \in {"assign_tx", "assign_rx"} /\ loc[t].chan = c})

\* thread t takes a step of a handle operation on channel c
HandleOp(t, c) ==
    \/ Push(t, c) \/ TryPop(t, c) \/ Pop(t, c)
    \/ loc[t].chan = c /\ (PushNotify(t) \/ PopWake(t))
    \/ \E k \in Kind : loc[t].chan = c /\ AssignConnect(t, k)
    \/ \E k \in Kind, u \in Thread : Copy(t, k, c, u)
    \/ \E k \in Kind : Drop(t, k, c)
    \/ \E k \in Kind, b \in Chan : Assign(t, k, c, b) \/ Assign(t, k, b, c)

\* thread t gives up a handle of channel c (drop, or assignment away from c)
GiveUp(t, c) ==
    \E k \in Kind : Drop(t, k, c) \/ \E b \in Chan \ {c} : Assign(t, k, c, b)

OwnersMatchHandles ==
    \A c \in Chan :
        /\ use_count[c] = HandleCount(c) + Assigning(c)
        /\ \A t \in Thread, k \in Kind : held[t][k][c] > 0 => Alive(c)
        /\ \A t \in Thread : (pc[t] \notin {"idle", "aborted"} /\ loc[t].chan = c) => Alive(c)

ReleasedByLastHandle ==
    [][\A c \in Chan, t \in Thread :
          /\ ~Alive(c) => ~HandleOp(t, c)
          /\ (held'[t] # held[t] /\ GiveUp(t, c) /\ HandleCount(c)' + Assigning(c)' > 0) =>
                /\ Alive(c)'
                /\ Queue(c)' = Queue(c)
                /\ first_'[c] = first_[c] /\ last_'[c] = last_[c]
                /\ \A n \in NodeId : heap[n].st = "queued" => heap'[n] = heap[n]
          /\ (Alive(c) /\ ~Alive(c)') => (GiveUp(t, c) => HandleCount(c)' + Assigning(c)' = 0)
      ]_vars

\* C11 (memory lifetime is gated by handles): the owners of a channel's
\* state are exactly its Sender and Receiver handles (and a handle being
\* assigned to it), so the state exists as long as any handle refers to it
\* and every step of a handle operation acts on existing state; giving up a
\* handle while another handle of either side remains -- also when it
\* brings a live-count to 0 -- keeps the state and its queued values, and the
\* state goes away only with the last handle.
C11_LifetimeByHandles == []OwnersMatchHandles /\ ReleasedByLastHandle

\* the last Sender of channel 1 is gone while a value is buffered and a
\* Receiver remains: the state and the value are kept; channel 2 has lost
\* all its handles and is released
C11_Witness ==
    /\ tx_count_[1] = 0 /\ Handles("tx", 1) = 0
    /\ Handles("rx", 1) > 0 /\ Alive(1)
    /\ Queue(1) # <<>>
    /\ ~Alive(2) /\ HandleCount(2) = 0

InChain(n, c) == \E i \in 1..Len(Nodes(c)) : Nodes(c)[i] = n

\* every node that exists is linked in the list of a channel that exists
NoLeak ==
    \A n \in NodeId : heap[n].st # "free" => \E c \in Chan : Alive(c) /\ InChain(n, c)

TeardownFreesQueue ==
    [][\A c \in Chan, t \in Thread, k \in Kind :
          (Drop(t, k, c) /\ Alive(c) /\ ~Alive(c)') =>
              /\ HandleCount(c)' = 0
              /\ NoDuplicates(Nodes(c))
              /\ \A n \in NodeId :
                    IF InChain(n, c)
                    THEN heap[n].st = "queued" /\ heap'[n] = FreeNode
                    ELSE heap'[n] = heap[n]
              /\ removed' = removed
              /\ last' = NoRes
              /\ failed' = failed
              /\ pc' = pc
      ]_vars

\* C12 (teardown safety): the drop of a channel's last handle, whatever is
\* still queued, deletes each node of the list (distinct, live nodes) and no
\* other node, delivers nothing (no value is added to what receivers got,
\* no call returns) and fails no assertion and blocks or aborts no thread;
\* no node outlives its channel.
C12_TeardownSafety == []NoLeak /\ TeardownFreesQueue

\* channel 1 was released while two pushed values had not been received;
\* no node is left and nothing failed
C12_Witness ==
    /\ ~Alive(1)
    /\ Len(pushlog[1]) = Len(removed[1]) + 2
    /\ \A n \in NodeId : heap[n] = FreeNode
    /\ failed = {}

\* C13 as stated (refcount, counting the copies only): a handle cloned N >= 1
\* times and N of the copies dropped leaves the live-count at 0. The
\* channel of Spec starts with one Sender and one Receiver, so the drop that
\* leaves one handle of a side is the drop of the N-th of N copies.
C13_AsStated ==
    [][\A t \in Thread, k \in Kind :
          (Drop(t, k, 1) /\ Handles(k, 1)' = 1) => Count(k, 1)' = 0
      ]_vars

\* C13 (refcount correctness, amended): a side's live-count is the number
\* of its live handles, the cloned handle included: with N + 1 handles after
\* N clones, dropping any N of them leaves it at 1 (the channel stays Open),
\* and it is 0 exactly when the last handle of the side has been dropped.
C13_CountIsHandles ==
    \A c \in Chan, k \in Kind : Alive(c) => Count(k, c) = Handles(k, c)

\* the Sender was cloned and both Senders were dropped (live-count 0),
\* while the Receiver was cloned and both Receivers live (live-count 2)
C13_Witness ==
    /\ Alive(1)
    /\ tx_count_[1] = 0 /\ hung[1] >= 0 /\ Handles("tx", 1) = 0
    /\ rx_count_[1] = 2 /\ Handles("rx", 1) = 2
    /\ pushlog[1] # <<>>

\* thread t is blocked on a condition variable after the step
Waits(t) == pc'[t] = "pop_wait" \/ \E c \in Chan : t \in cv_'[c]

\* no started operation other than pop has to wait for anything: its next
\* step can always be taken; a thread blocked on cv_ is inside pop()
NothingElseWaits ==
    \A t \in Thread :
        /\ pc[t] = "push_notify" => ENABLED PushNotify(t)
        /\ \A k \in Kind : pc[t] = "assign_" \o k => ENABLED AssignConnect(t, k)
        /\ \A c \in Chan : t \in cv_[c] => (pc[t] = "pop_wait" /\ loc[t].chan = c)
        /\ \A c \in Chan :
              pc[t] = "idle" =>
                 /\ held[t]["tx"][c] > 0 => ENABLED Push(t, c)
                 /\ held[t]["rx"][c] > 0 => ENABLED TryPop(t, c)
                 /\ \A k \in Kind : held[t][k][c] > 0 =>
                       /\ ENABLED Drop(t, k, c)
                       /\ \A b \in Chan : held[t][k][b] > 0 => ENABLED Assign(t, k, c, b)

\* thread t takes a step of an operation other than pop on channel c
OtherOp(t, c) ==
    \/ Push(t, c) \/ PushNotify(t) \/ TryPop(t, c)
    \/ \E k \in Kind :
          \/ \E u \in Thread : Copy(t, k, c, u)
          \/ Drop(t, k, c)
          \/ \E b \in Chan : Assign(t, k, c, b)
          \/ AssignConnect(t, k)

OnlyPopBlocks ==
    [][\A t \in Thread, c \in Chan :
          /\ Waits(t) => ~OtherOp(t, c)
          /\ (Pop(t, c) \/ (loc[t].chan = c /\ PopWake(t))) =>
                IF Queue(c) = <<>> /\ tx_count_[c] > 0
                THEN pc'[t] = "pop_wait" /\ t \in cv_'[c]
                ELSE pc'[t] = "idle" /\ ~Waits(t)
          /\ (t \in cv_'[c] /\ t \notin cv_[c]) =>
                /\ Pop(t, c) \/ PopWake(t)
                /\ Queue(c) = <<>> /\ tx_count_[c] > 0
      ]_vars

\* C14 (only pop may block): push, try_pop, copy, drop and assignment never
\* put their thread on the condition variable and each of their steps can
\* be taken in every state of the channel; a thread is put on cv_ only by
\* pop(), which (on entry and on each wakeup) blocks exactly when it finds
\* the queue empty and the sender-count > 0 and completes otherwise.
C14_OnlyPopBlocks == []NothingElseWaits /\ OnlyPopBlocks

\* a receiver is blocked in pop() on channel 2 while a Sender has just been
\* re-pointed (from channel 1 to channel 2) without waiting
C14_Witness ==
    /\ "r1" \in cv_[2] /\ pc["r1"] = "pop_wait"
    /\ last.op = "assign" /\ last.out = "ok"
    /\ tx_count_[2] = 2 /\ tx_count_[1] = 0

\* C15 (assignment within one channel is a no-op): when a Sender or
\* Receiver is assigned a handle of its own channel (itself included), the
\* call returns at once and nothing changes: not the live-counts (the
\* sender-count is not taken through 0, no hang-up is recorded), not the
\* owners, the handles or the queue; no waiter is woken, so a blocked pop
\* stays blocked instead of failing with RecvError.
C15_AssignSameIsNoop ==
    [][\A t \in Thread, k \in Kind, c \in Chan : Assign(t, k, c, c) =>
          /\ UNCHANGED <<tx_count_, rx_count_, cv_, hung, use_count, held>>
          /\ UNCHANGED <<first_, last_, heap, removed, pushlog, failed>>
          /\ pc' = pc
          /\ last' = Result(t, "assign", "same", NoVal)
          /\ \A r \in Thread : Blocked(r, c) => Blocked(r, c)' /\ (r \in cv_[c] <=> r \in cv_'[c])
      ]_vars

\* the only Sender of channel 1 has just been assigned to itself while a
\* receiver is blocked in pop() on the empty queue: the sender-count is
\* still 1 and the receiver still blocked
C15_Witness ==
    /\ last = [t |-> "s1", op |-> "assign", out |-> "same", val |-> NoVal, waited |-> FALSE]
    /\ Handles("tx", 1) = 1 /\ tx_count_[1] = 1 /\ hung[1] = -1
    /\ Queue(1) = <<>>
    /\ "r1" \in cv_[1] /\ Blocked("r1", 1)

Other(k) == IF k = "tx" THEN "rx" ELSE "tx"

\* first part of an assignment from channel a to another channel b
AssignDisconnects ==
    [][\A t \in Thread, k \in Kind, a \in Chan, b \in Chan :
          (a # b /\ Assign(t, k, a, b)) =>
              /\ Count(k, a)' = Count(k, a) - 1
              /\ Count(Other(k), a)' = Count(Other(k), a)
              /\ cv_'[a] = IF k = "tx" /\ Count(k, a) = 1 THEN {} ELSE cv_[a]
              /\ use_count'[a] = use_count[a] - 1
              /\ use_count'[b] = use_count[b] + 1
              /\ Alive(a)' => (Queue(a)' = Queue(a) /\ first_'[a] = first_[a])
              /\ tx_count_'[b] = tx_count_[b] /\ rx_count_'[b] = rx_count_[b]
              /\ cv_'[b] = cv_[b] /\ Queue(b)' = Queue(b)
              /\ held'[t][k][a] = held[t][k][a] - 1
              /\ held'[t][k][b] = held[t][k][b]
              /\ pc'[t] = "assign_" \o k /\ loc'[t].chan = b
              /\ failed' = failed
      ]_vars

\* second part: the connect on the new channel
AssignConnects ==
    [][\A t \in Thread, k \in Kind, b \in Chan :
          (loc[t].chan = b /\ AssignConnect(t, k)) =>
              /\ Count(k, b)' = Count(k, b) + 1
              /\ Count(Other(k), b)' = Count(Other(k), b)
              /\ \A a \in Chan \ {b} :
                    tx_count_'[a] = tx_count_[a] /\ rx_count_'[a] = rx_count_[a]
              /\ UNCHANGED <<first_, last_, heap, cv_, use_count>>
              /\ held' = [held EXCEPT ![t][k][b] = @ + 1]
              /\ pc'[t] = "idle"
              /\ last' = Result(t, "assign", "ok", NoVal)
              /\ failed' = failed
      ]_vars

\* C16 (assignment to another channel): assigning to a handle of channel a
\* a live handle of channel b first takes one off a's matching live-count
\* (all of a's waiters are unblocked if that was the last Sender) and moves
\* the handle's share of ownership from a to b, then adds one to b's
\* matching live-count; the other side's counts and, while a exists, both
\* queues are unchanged, nothing fails, and from then on the thread's handle
\* is a handle of b.
C16_AssignMoves == AssignDisconnects /\ AssignConnects

\* the only Sender of channel 1 was assigned channel 2's Sender: the
\* receiver blocked on channel 1 has been woken by the hang-up, channel 2
\* has two Senders and still holds its queued value
C16_Witness ==
    /\ last = [t |-> "s1", op |-> "assign", out |-> "ok", val |-> NoVal, waited |-> FALSE]
    /\ tx_count_[1] = 0 /\ hung[1] >= 0
    /\ Blocked("r1", 1) /\ "r1" \notin cv_[1]
    /\ tx_count_[2] = 2 /\ held["s1"]["tx"][2] = 2
    /\ Queue(2) # <<>>

C18_HangupPermanent ==
    [][\A c \in Chan, k \in Kind :
          /\ (Alive(c) /\ Alive(c)' /\ Count(k, c) = 0) => Count(k, c)' = 0
          /\ (Alive(c) /\ Alive(c)' /\ hung[c] >= 0) => hung'[c] = hung[c]
          /\ ~Alive(c) => (~Alive(c)' /\ Count(k, c)' = Count(k, c))
      ]_vars

\* channel 1 lost its only Receiver; after that the thread s1 re-pointed
\* its Sender of channel 2 to channel 1: channel 1 has two Senders and
\* still no Receiver, channel 2 has no Sender
C18_Witness ==
    /\ rx_count_[1] = 0 /\ Handles("rx", 1) = 0
    /\ last.op = "assign" /\ last.out = "ok"
    /\ tx_count_[1] = 2 /\ tx_count_[2] = 0
    /\ Alive(1) /\ Alive(2)

\* the node at the end of the chain that starts at first_ (NULL if empty)
LastOfChain(c) == IF Nodes(c) = <<>> THEN NULL ELSE Nodes(c)[Len(Nodes(c))]

\* C19 (list shape): for every channel that exists, first_ is null iff
\* last_ is null iff nothing is queued (as many values were received as were
\* pushed); when not empty the chain of next links from first_ ends at
\* last_, whose next link is null, and holds the pushed values that were
\* not yet received, in push order.
C19_ListShape ==
    \A c \in Chan : Alive(c) =>
        /\ (first_[c] = NULL) <=> (last_[c] = NULL)
        /\ (first_[c] = NULL) <=> (Len(removed[c]) = Len(pushlog[c]))
        /\ LastOfChain(c) = last_[c]
        /\ last_[c] # NULL => heap[last_[c]].next = NULL
        /\ Len(Nodes(c)) <= Cardinality(NodeId)
        /\ Queue(c) = SubSeq(pushlog[c], Len(removed[c]) + 1, Len(pushlog[c]))

\* three values were pushed and try_pop has just received the first: two
\* nodes are left, the head linked to the tail
C19_Witness ==
    /\ Len(pushlog[1]) = 3 /\ Len(removed[1]) = 1
    /\ first_[1] # last_[1]
    /\ heap[first_[1]].next = last_[1]
    /\ last.op = "try_pop" /\ last.out = "value"

CountStep(k, c, by) ==
    /\ Count(k, c) >= 1
    /\ Count(k, c)' = Count(k, c) + by
    /\ Count(k, c)' >= 0

\* C20 (the assertions on the live-counts hold): no assertion ever fails
\* and no thread is aborted; every connect_tx / connect_rx (copy, second
\* part of an assignment) and every disconnect_tx / disconnect_rx (drop,
\* first part of an assignment) finds the matching count >= 1 and changes it
\* by exactly one, so no count goes from 0 to 1 or wraps below 0.
C20_AssertionsHold ==
    /\ [](failed = {} /\ \A t \in Thread : pc[t] # "aborted")
    /\ [][\A t \in Thread, k \in Kind, c \in Chan :
            /\ (\E u \in Thread : Copy(t, k, c, u)) => CountStep(k, c, 1)
            /\ (loc[t].chan = c /\ AssignConnect(t, k)) => CountStep(k, c, 1)
            /\ Drop(t, k, c) => CountStep(k, c, -1)
            /\ (\E b \in Chan \ {c} : Assign(t, k, c, b)) => CountStep(k, c, -1)
        ]_vars

\* every kind of count change has happened: the Sender of channel 1 was
\* copied and a Sender of channel 1 then assigned to channel 2 (three
\* connects, one disconnect), and channel 1's Receiver was dropped
C20_Witness ==
    /\ failed = {}
    /\ last.op = "assign" /\ last.out = "ok"
    /\ tx_count_[1] = 1 /\ tx_count_[2] = 2
    /\ rx_count_[1] = 0 /\ rx_count_[2] = 1

\* C21 (pop never completes with "no value"): a pop() that takes the lock,
\* on entry or after any wakeup, while the queue is empty and the
\* sender-count is > 0 goes (back) to waiting on cv_; otherwise it completes
\* with the head of the queue or with RecvError, never with a null node, so
\* assert(node) in pop never fails.
C21_PopNeverEmptyHanded ==
    /\ []("pop: assert(node)" \notin failed /\ ~(last.op = "pop" /\ last.out = "nullopt"))
    /\ [][\A t \in Thread, c \in Chan :
            (Pop(t, c) \/ (loc[t].chan = c /\ PopWake(t))) =>
                IF first_[c] = NULL /\ tx_count_[c] > 0
                THEN /\ pc'[t] = "pop_wait" /\ loc'[t].chan = c /\ t \in cv_'[c]
                     /\ last' = NoRes
                     /\ UNCHANGED <<chanVars, heap, removed, failed>>
                ELSE /\ pc'[t] = "idle"
                     /\ last'.t = t /\ last'.op = "pop"
                     /\ last'.out = IF first_[c] # NULL THEN "value" ELSE "RecvError"
                     /\ first_[c] # NULL => last'.val = heap[first_[c]].elem
        ]_vars

\* r1 and r2 were blocked on the empty queue; a push notified r1, but r2
\* (woken spuriously) has just taken the value: r1 is awake with the queue
\* empty and a Sender live, and will have to wait again
C21_Witness ==
    /\ pc["r1"] = "pop_wait" /\ loc["r1"].chan = 1 /\ "r1" \notin cv_[1]
    /\ first_[1] = NULL /\ tx_count_[1] > 0
    /\ last.t = "r2" /\ last.op = "pop" /\ last.out = "value" /\ last.waited

\* thread t is inside amst::channel(), building channel c
Building(t, c) == InFactory(t) /\ loc[t].chan = c

\* C22 (factory): amst::channel() makes a channel that did not exist,
\* empty, with both live-counts 1; while the pair is being built (copies of
\* the local handles, then their destruction) both counts stay >= 1, no
\* hang-up is recorded and nothing fails; when it returns the channel is
\* empty, has sender-count 1 and receiver-count 1, and exactly one Sender
\* and one Receiver, both owned by the caller, refer to it.
C22_Factory ==
    /\ [](\A t \in Thread, c \in Chan : Building(t, c) =>
             /\ Alive(c) /\ tx_count_[c] >= 1 /\ rx_count_[c] >= 1
             /\ hung[c] = -1 /\ first_[c] = NULL /\ last_[c] = NULL
             /\ cv_[c] = {} /\ failed = {})
    /\ [][\A t \in Thread, c \in Chan :
            /\ FactoryBegin(t, c) =>
                  /\ ~Alive(c) /\ HandleCount(c) = 0
                  /\ tx_count_'[c] = 1 /\ rx_count_'[c] = 1 /\ Queue(c)' = <<>>
            /\ (Building(t, c) /\ FactoryStep(t) /\ ~InFactory(t)') =>
                  /\ pc'[t] = "idle"
                  /\ tx_count_'[c] = 1 /\ rx_count_'[c] = 1
                  /\ Handles("tx", c)' = 1 /\ held'[t]["tx"][c] = 1
                  /\ Handles("rx", c)' = 1 /\ held'[t]["rx"][c] = 1
                  /\ use_count'[c] = 2
                  /\ Queue(c)' = <<>> /\ first_'[c] = NULL /\ last_'[c] = NULL
                  /\ hung'[c] = -1
        ]_vars

\* s1's call of the factory has just returned channel 1, while r1 is in
\* the middle of its own call for channel 2 (both handles copied, the
\* locals not yet destroyed: counts 2/2)
C22_Witness ==
    /\ last = [t |-> "s1", op |-> "channel", out |-> "ok", val |-> NoVal, waited |-> FALSE]
    /\ tx_count_[1] = 1 /\ rx_count_[1] = 1
    /\ Building("r1", 2) /\ tx_count_[2] = 2 /\ rx_count_[2] = 2

\* no thread is inside the factory or an assignment (copy constructors and
\* destructors are single steps)
Quiescent ==
    \A t \in Thread : pc[t] \notin {"assign_tx", "assign_rx"} /\ ~InFactory(t)

\* C23 (live-count equals live handles): whenever no factory call or
\* assignment is in progress, each channel that exists has a sender-count
\* equal to the number of Sender handles bound to it, over all threads, and
\* a receiver-count equal to the number of its Receiver handles; no handle
\* is bound to a channel that does not exist.
C23_LiveCountIsHandles ==
    Quiescent =>
        \A c \in Chan, k \in Kind :
            /\ Alive(c) => Count(k, c) = SumHeld(Thread, k, c)
            /\ ~Alive(c) => SumHeld(Thread, k, c) = 0

\* after a copy of channel 1's Receiver and the assignment of channel 2's
\* Sender to channel 1's Sender: channel 1 has no Sender and two
\* Receivers, channel 2 two Senders (both of s1) and one Receiver
C23_Witness ==
    /\ Quiescent
    /\ tx_count_[1] = 0 /\ rx_count_[1] = 2 /\ held["r1"]["rx"][1] = 2
    /\ tx_count_[2] = 2 /\ rx_count_[2] = 1 /\ held["s1"]["tx"][2] = 2
    /\ Alive(1) /\ Alive(2)

\* C24 (the drop of a Sender that is not the last is invisible to the
\* receivers): such a drop lowers the sender-count by one, to a count that
\* is still >= 1, and changes nothing else of the channel: nobody is taken
\* off cv_, no hang-up is recorded, every other thread stays where it is
\* and the wait predicate of pop keeps its value; and a pop or try_pop
\* fails with RecvError only once the sender-count is 0.
C24_DropNotLastInvisible ==
    [][\A c \in Chan, t \in Thread :
          /\ (tx_count_[c] > 1 /\ Drop(t, "tx", c)) =>
                /\ tx_count_'[c] = tx_count_[c] - 1
                /\ tx_count_'[c] >= 1
                /\ cv_' = cv_
                /\ hung' = hung
                /\ UNCHANGED <<first_, last_, heap, rx_count_, removed, failed>>
                /\ \A r \in Thread : pc'[r] = pc[r] /\ loc'[r] = loc[r]
                /\ last' = NoRes
                /\ WaitPredicate(c)' <=> WaitPredicate(c)
          /\ (last'.out = "RecvError" /\ DequeueStep(t, c)) =>
                (tx_count_[c] = 0 /\ hung[c] >= 0)
      ]_vars

\* one of the two Senders was dropped while both receivers are blocked in
\* pop() on the empty queue: they are still blocked, no hang-up is recorded
C24_Witness ==
    /\ tx_count_[1] = 1 /\ Handles("tx", 1) = 1
    /\ hung[1] = -1
    /\ Queue(1) = <<>>
    /\ cv_[1] = Receivers
    /\ \A r \in Receivers : Blocked(r, 1)

\* C25 (failing operations change nothing): a push that fails with
\* SendError leaves the queue, first_, last_, the nodes and both counts as
\* they were, and its element is never enqueued nor delivered; a pop or
\* try_pop that fails with RecvError finds the queue empty and leaves the
\* queue, first_, last_, the nodes and both counts as they were.
C25_FailuresChangeNothing ==
    [][\A c \in Chan, t \in Thread :
          /\ (last'.out = "SendError" /\ Push(t, c)) =>
                /\ Queue(c)' = Queue(c)
                /\ UNCHANGED <<first_, last_, heap, tx_count_, rx_count_>>
                /\ UNCHANGED <<pushlog, removed, cv_, use_count, held>>
                /\ \A d \in Chan :
                      /\ \A i \in 1..Len(Queue(d)') : Queue(d)'[i] # <<t, seq'[t]>>
                      /\ \A i \in 1..Len(removed'[d]) : removed'[d][i] # <<t, seq'[t]>>
          /\ (last'.out = "RecvError" /\ DequeueStep(t, c)) =>
                /\ Queue(c) = <<>> /\ Queue(c)' = <<>>
                /\ UNCHANGED <<first_, last_, heap, tx_count_, rx_count_>>
                /\ UNCHANGED <<pushlog, removed, use_count, held>>
      ]_vars

\* a push has just failed on a channel without Receivers whose queue holds
\* two elements, and the two are still there
C25_Witness ==
    /\ last.op = "push" /\ last.out = "SendError"
    /\ rx_count_[1] = 0
    /\ Len(Queue(1)) = 2
    /\ Len(pushlog[1]) = 2 /\ removed[1] = <<>>
    /\ seq[last.t] >= 2

====
